---------------------------- MODULE Spec2Model ----------------------------
(* A model of the content-rotation engine of Dot-Crypto-Ticker:            *)
(* src/app.py (the rotating ticker: BTC -> ETH -> WEATHER -> DAY) with its *)
(* pure helpers, and src/main.py (the three-symbol price ticker).          *)
(*                                                                         *)
(* Conventions.                                                            *)
(*  - A Python float is a record [t, v]: t = "num" with v the value in     *)
(*    hundredths (65000.00 is 6500000), t = "nan" for float('nan'), and    *)
(*    t = "none" for Python's None where a float is optional.              *)
(*  - A value taken out of a decoded JSON body is a record [t, s, n]:      *)
(*    t = "absent" (the key is missing), "null", "str" (s is the text, a   *)
(*    sequence of one-character strings) or "num" (n, in hundredths).      *)
(*  - Texts of the source that are not ASCII are written in ASCII here:    *)
(*    the degree sign of the weather title is "C", the arrows of           *)
(*    fmt_change are "^" and "v", the Vietnamese texts are transliterated. *)
EXTENDS Integers, Sequences, FiniteSets, TLC

(***************************************************************************)
(* Bounds of the model                                                     *)
(***************************************************************************)

\* The rotation stops starting ticks once idx has reached MaxIdx.
MaxIdx == 5

(***************************************************************************)
(* Values                                                                  *)
(***************************************************************************)

None == [t |-> "none", v |-> 0]
NaN == [t |-> "nan", v |-> 0]
Num(x) == [t |-> "num", v |-> x]

Absent == [t |-> "absent", s |-> << >>, n |-> 0]
JNull == [t |-> "null", s |-> << >>, n |-> 0]
JStr(chars) == [t |-> "str", s |-> chars, n |-> 0]
JNum(x) == [t |-> "num", s |-> << >>, n |-> x]

Digits == {"0", "1", "2", "3", "4", "5", "6", "7", "8", "9"}

DigitVal(c) ==
  CASE c = "0" -> 0 [] c = "1" -> 1 [] c = "2" -> 2 [] c = "3" -> 3
    [] c = "4" -> 4 [] c = "5" -> 5 [] c = "6" -> 6 [] c = "7" -> 7
    [] c = "8" -> 8 [] c = "9" -> 9

RECURSIVE DigitsValTo(_, _)
\* The number written by the first n digits of chars.
DigitsValTo(chars, n) ==
  IF n = 0 THEN 0
  ELSE 10 * DigitsValTo(chars, n - 1) + DigitVal(chars[n])

DigitsVal(chars) == DigitsValTo(chars, Len(chars))

AllDigits(chars) == \A i \in 1..Len(chars) : chars[i] \in Digits

\* The positions of "." in a text.
Dots(chars) == {i \in 1..Len(chars) : chars[i] = "."}

\* Python's float(text), for texts over digits, "-", "+", "." and letters:
\* [sign] digits [. digits] | [sign] . digits | [sign] nan; anything else is
\* a ValueError ("error").  Fraction digits beyond the second are dropped.
ParseFloatText(chars) ==
  LET signed == Len(chars) > 0 /\ chars[1] \in {"-", "+"}
      neg == signed /\ chars[1] = "-"
      body == IF signed THEN SubSeq(chars, 2, Len(chars)) ELSE chars
      dots == Dots(body)
      dot == IF dots = {} THEN Len(body) + 1 ELSE CHOOSE i \in dots : TRUE
      ip == SubSeq(body, 1, dot - 1)
      fp == SubSeq(body, dot + 1, Len(body))
      fp2 == SubSeq(fp \o <<"0", "0">>, 1, 2)
      mag == 100 * DigitsVal(ip) + DigitsVal(fp2)
  IN  IF body = <<"n", "a", "n">> THEN NaN
      ELSE IF /\ Cardinality(dots) <= 1
              /\ AllDigits(ip) /\ AllDigits(fp)
              /\ Len(ip) + Len(fp) > 0
           THEN Num(IF neg THEN 0 - mag ELSE mag)
           ELSE [t |-> "error", v |-> 0]

\* float(v) raises (TypeError for None, ValueError for a text that is no
\* number), and safe_float returns the default then.
safe_float(j, default) ==
  CASE j.t = "num" -> Num(j.n)
    [] j.t = "str" -> LET f == ParseFloatText(j.s)
                      IN  IF f.t = "error" THEN default ELSE f
    [] OTHER -> default

\* dict.get(key): a missing key reads as None, like a null.
DictGet(j) == IF j.t = "absent" THEN JNull ELSE j

(***************************************************************************)
(* Formatting                                                              *)
(***************************************************************************)

Abs(x) == IF x < 0 THEN 0 - x ELSE x

\* n / d for n >= 0, d > 0, rounded to the nearest integer, ties to even
\* (the rounding of Python's format and round on an exactly held value).
RoundHalfEven(n, d) ==
  LET q == n \div d
      r == n % d
  IN  IF 2 * r < d THEN q
      ELSE IF 2 * r > d THEN q + 1
      ELSE IF q % 2 = 0 THEN q ELSE q + 1

Pad2(k) == IF k < 10 THEN "0" \o ToString(k) ELSE ToString(k)
Pad3(k) == IF k < 10 THEN "00" \o ToString(k)
           ELSE IF k < 100 THEN "0" \o ToString(k) ELSE ToString(k)

RECURSIVE Grouped(_)
\* The digits of k >= 0 with "," between groups of three.
Grouped(k) ==
  IF k < 1000 THEN ToString(k)
  ELSE Grouped(k \div 1000) \o "," \o Pad3(k % 1000)

\* f"{x:.2f}" of a float held in hundredths.
Fixed2(f) ==
  IF f.t = "nan" THEN "nan"
  ELSE (IF f.v < 0 THEN "-" ELSE "") \o ToString(Abs(f.v) \div 100)
         \o "." \o Pad2(Abs(f.v) % 100)

\* f"{x:.1f}"
Fixed1(f) ==
  IF f.t = "nan" THEN "nan"
  ELSE LET tenths == RoundHalfEven(Abs(f.v), 10)
       IN  (IF f.v < 0 THEN "-" ELSE "") \o ToString(tenths \div 10)
             \o "." \o ToString(tenths % 10)

\* f"{x:.0f}"
Fixed0(f) ==
  IF f.t = "nan" THEN "nan"
  ELSE (IF f.v < 0 THEN "-" ELSE "") \o ToString(RoundHalfEven(Abs(f.v), 100))

\* f"{p:,.2f}"
fmt_price(p) ==
  IF p.t = "nan" THEN "nan"
  ELSE (IF p.v < 0 THEN "-" ELSE "") \o Grouped(Abs(p.v) \div 100)
         \o "." \o Pad2(Abs(p.v) % 100)

fmt_change(cp) ==
  IF cp.t = "none" THEN ""
  ELSE IF cp.t = "nan" THEN ""
  ELSE LET arrow == IF cp.v >= 0 THEN "^" ELSE "v"
           sign == IF cp.v >= 0 THEN "+" ELSE ""
       IN  sign \o Fixed1(cp) \o "% " \o arrow

(***************************************************************************)
(* calculate_rsi: Wilder's RSI of a list of closes (hundredths), exact.    *)
(* An average is a fraction num / den; avg_gain and avg_loss always share  *)
(* the denominator.  The result is None or a float in hundredths.          *)
(***************************************************************************)

\* The default period of calculate_rsi.
DefaultPeriod == 14

\* fetch_rsi needs this many closes.
MinCloses == 15

RECURSIVE SumSeq(_)
SumSeq(sq) == IF sq = << >> THEN 0 ELSE sq[1] + SumSeq(Tail(sq))

\* A faulty variant of Gains and of Losses that forgets the sign test: every
\* change counts, by its size.  C16 and C17 must tell it from them.
AbsDeltas(deltas) ==
  [i \in 1..Len(deltas) |-> IF deltas[i] < 0 THEN 0 - deltas[i] ELSE deltas[i]]

Deltas(prices) == [i \in 1..(Len(prices) - 1) |-> prices[i + 1] - prices[i]]
Gains(deltas) == [i \in 1..Len(deltas) |-> IF deltas[i] > 0 THEN deltas[i] ELSE 0]
Losses(deltas) == [i \in 1..Len(deltas) |-> IF deltas[i] < 0 THEN 0 - deltas[i] ELSE 0]

RECURSIVE Smooth(_, _, _, _, _)
\* The smoothing loop from position i (1-based) on: avg = <<num, den>>.
Smooth(values, period, i, num, den) ==
  IF i > Len(values) THEN <<num, den>>
  ELSE Smooth(values, period, i + 1,
              num * (period - 1) + values[i] * den, den * period)

\* A faulty variant of calculate_rsi that asks for one close more
\* (len(prices) < period + 2).  C15 must tell it from calculate_rsi.
calculate_rsi_needing_more(prices, period) ==
  IF Len(prices) < period + 2 THEN None
  ELSE LET deltas == Deltas(prices)
           gains == Gains(deltas)
           losses == Losses(deltas)
           avg_gain == Smooth(gains, period, period + 1,
                              SumSeq(SubSeq(gains, 1, period)), period)
           avg_loss == Smooth(losses, period, period + 1,
                              SumSeq(SubSeq(losses, 1, period)), period)
       IN  IF avg_loss[1] = 0 THEN Num(10000)
           ELSE Num(RoundHalfEven(10000 * avg_gain[1], avg_gain[1] + avg_loss[1]))

calculate_rsi(prices, period) ==
  IF Len(prices) < period + 1 THEN None
  ELSE LET deltas == Deltas(prices)
           gains == Gains(deltas)
           losses == Losses(deltas)
           avg_gain == Smooth(gains, period, period + 1,
                              SumSeq(SubSeq(gains, 1, period)), period)
           avg_loss == Smooth(losses, period, period + 1,
                              SumSeq(SubSeq(losses, 1, period)), period)
       IN  IF avg_loss[1] = 0 THEN Num(10000)
           ELSE \* rs = avg_gain / avg_loss; 100 - 100 / (1 + rs), 2 decimals
                Num(RoundHalfEven(10000 * avg_gain[1], avg_gain[1] + avg_loss[1]))

(***************************************************************************)
(* Weather: the description text and the icon key                          *)
(* A weather code is None or Num(code) (v is the code itself).             *)
(***************************************************************************)

\* Python truthiness of an optional number, and "a or b".
Falsy(x) == x.t = "none" \/ (x.t = "num" /\ x.v = 0)
PyOr(a, b) == IF Falsy(a) THEN b ELSE a

\* The keys of WEATHER_TEXT_VI.
WeatherCodes ==
  {0, 1, 2, 3, 45, 48, 51, 53, 55, 56, 57, 61, 63, 65, 66, 67,
   71, 73, 75, 77, 80, 81, 82, 85, 86, 95, 96, 99}

WEATHER_TEXT_VI(c) ==
  CASE c = 0 -> "Troi quang" [] c = 1 -> "Gan nhu quang" [] c = 2 -> "It may"
    [] c = 3 -> "Nhieu may" [] c = 45 -> "Suong mu" [] c = 48 -> "Suong mu bang"
    [] c = 51 -> "Mua phun nhe" [] c = 53 -> "Mua phun" [] c = 55 -> "Mua phun nang"
    [] c = 56 -> "Mua phun dong bang nhe" [] c = 57 -> "Mua phun dong bang"
    [] c = 61 -> "Mua nhe" [] c = 63 -> "Mua" [] c = 65 -> "Mua to"
    [] c = 66 -> "Mua dong bang nhe" [] c = 67 -> "Mua dong bang"
    [] c = 71 -> "Tuyet nhe" [] c = 73 -> "Tuyet" [] c = 75 -> "Tuyet day"
    [] c = 77 -> "Hat tuyet" [] c = 80 -> "Mua rao nhe" [] c = 81 -> "Mua rao"
    [] c = 82 -> "Mua rao lon" [] c = 85 -> "Tuyet rao nhe" [] c = 86 -> "Tuyet rao lon"
    [] c = 95 -> "Dong" [] c = 96 -> "Dong kem mua da" [] c = 99 -> "Dong kem mua da"

weather_desc_vi(code) ==
  IF code.t = "none" THEN "Thoi tiet"
  ELSE IF code.v \in WeatherCodes THEN WEATHER_TEXT_VI(code.v)
  ELSE "Ma " \o ToString(code.v)

\* Faulty variants of is_night_vn: never night, and night from noon on.  C18
\* and C20 must tell them from is_night_vn.
is_night_never(h) == FALSE
is_night_from_noon(h) == h >= 12

\* is_night_vn, of the hour of the day in Asia/Ho_Chi_Minh.
is_night_vn(h) == (h < 6) \/ (h >= 18)

\* meteo_code_to_icon_key; hour is the local hour the call reads off the clock.
meteo_code_to_icon_key(code, day_only, hour) ==
  IF code.t = "none" THEN "na"
  ELSE
    LET night == IF day_only THEN FALSE ELSE is_night_vn(hour)
        c == code.v
    IN  CASE c = 0 -> IF night THEN "night-clear" ELSE "day-sunny"
          [] c = 1 -> IF night THEN "night-alt-partly-cloudy" ELSE "day-sunny-overcast"
          [] c = 2 -> IF night THEN "night-alt-partly-cloudy" ELSE "day-cloudy"
          [] c = 3 -> IF night THEN "night-alt-cloudy" ELSE "cloudy"
          [] c \in {45, 48} -> IF night THEN "night-fog" ELSE "day-fog"
          [] c \in {51, 53, 55} -> IF night THEN "night-alt-sprinkle" ELSE "day-sprinkle"
          [] c \in {56, 57} -> IF night THEN "night-alt-sleet" ELSE "day-sleet"
          [] c \in {61, 63} -> IF night THEN "night-alt-rain" ELSE "day-rain"
          [] c = 65 -> IF night THEN "night-alt-rain-wind" ELSE "day-rain-wind"
          [] c \in {66, 67} -> IF night THEN "night-alt-sleet" ELSE "day-sleet"
          [] c \in {71, 73, 75} -> IF night THEN "night-alt-snow" ELSE "day-snow"
          [] c = 77 -> "snow"
          [] c \in {80, 81, 82} -> IF night THEN "night-alt-showers" ELSE "day-showers"
          [] c \in {85, 86} -> IF night THEN "night-alt-snow" ELSE "day-snow"
          [] c = 95 -> IF night THEN "night-alt-thunderstorm" ELSE "day-thunderstorm"
          [] c \in {96, 99} -> IF night THEN "night-alt-hail" ELSE "day-hail"
          [] OTHER -> "na"

\* Every key meteo_code_to_icon_key can return.
IconKeys ==
  {"na", "snow", "cloudy", "day-sunny", "day-sunny-overcast", "day-cloudy",
   "day-fog", "day-sprinkle", "day-sleet", "day-rain", "day-rain-wind",
   "day-snow", "day-showers", "day-thunderstorm", "day-hail",
   "night-clear", "night-alt-partly-cloudy", "night-alt-cloudy", "night-fog",
   "night-alt-sprinkle", "night-alt-sleet", "night-alt-rain",
   "night-alt-rain-wind", "night-alt-snow", "night-alt-showers",
   "night-alt-thunderstorm", "night-alt-hail"}

\* No icon: the None that get_weather_icon_b64 may return (a JSON null).
NoIcon == "null"

\* dict.get(key) of the icon table (a function from some keys to texts);
\* a missing key and an empty text are both falsy.
IconGet(icons, key) == IF key \in DOMAIN icons THEN icons[key] ELSE ""

\* A faulty variant of DayOnlyOf that never sees the override.  C19 must tell
\* it from DayOnlyOf.
DayOnlyNever(env) == FALSE

\* The WEATHER_DAY_ONLY test, of the environment text already stripped and
\* lowered.
DayOnlyOf(env) == env \in {"1", "true", "yes"}

\* A faulty variant of get_weather_icon_b64 without the "na" entry as the
\* second choice.  C22 must tell it from get_weather_icon_b64.
get_weather_icon_b64_without_na(code, env, hour, icons) ==
  LET day_only == DayOnlyOf(env)
      key == meteo_code_to_icon_key(code, day_only, hour)
  IN  IF IconGet(icons, key) # "" THEN IconGet(icons, key) ELSE NoIcon

get_weather_icon_b64(code, env, hour, icons) ==
  LET day_only == DayOnlyOf(env)
      key == meteo_code_to_icon_key(code, day_only, hour)
  IN  IF IconGet(icons, key) # "" THEN IconGet(icons, key)
      ELSE IF IconGet(icons, "na") # "" THEN IconGet(icons, "na")
      ELSE NoIcon

\* The icon constants of the price and calendar kinds (base64 in the source).
BTC_ICON_B64 == "BTC_ICON_B64"
ETH_ICON_B64 == "ETH_ICON_B64"
TET_ICON_B64 == "TET_ICON_B64"

(***************************************************************************)
(* What the providers can answer (the inputs of the model)                 *)
(***************************************************************************)

\* A fetch that did not deliver a usable response: a timeout, a network
\* error, a status outside 2xx, a body that is no JSON.
Failed == [ok |-> FALSE]

\* Bodies of /ticker/24hr.
TickerBodies ==
  {[lastPrice |-> Absent, priceChangePercent |-> Absent],
   [lastPrice |-> JNull, priceChangePercent |-> JStr(<<"-", "1", ".", "2">>)],
   [lastPrice |-> JStr(<<"a", "b", "c">>), priceChangePercent |-> JStr(<<"0", ".", "5">>)],
   [lastPrice |-> JStr(<<"n", "a", "n">>), priceChangePercent |-> JStr(<<"0", ".", "5">>)],
   [lastPrice |-> JStr(<<"6", "5", "0", "0", "0", ".", "0", "0">>),
    priceChangePercent |-> JStr(<<"-", "1", ".", "2">>)],
   [lastPrice |-> JStr(<<"6", "5", "0", "0", "0", ".", "0", "0">>),
    priceChangePercent |-> Absent]}

NoBody == [lastPrice |-> Absent, priceChangePercent |-> Absent]

\* n closes (the k[4] of n klines): 100.00, one rise of up, one fall of down,
\* then flat.  With n = 15 the RSI(14) is 100 * up / (up + down).
Candles(up, down, n) ==
  [i \in 1..n |-> JNum(IF i = 1 THEN 10000
                       ELSE IF i = 2 THEN 10000 + up
                       ELSE 10000 + up - down)]

\* The same with the close of kline 3 unusable (null).
CandlesWithGap(up, down, n) ==
  [i \in 1..n |-> IF i = 3 THEN JNull ELSE Candles(up, down, n)[i]]

\* Bodies of /klines, by interval.
KlineBodies(interval) ==
  IF interval = "4h"
  THEN {Candles(100, 300, 15), Candles(300, 700, 15),
        Candles(700, 300, 15), Candles(300, 100, 15)}
  ELSE {Candles(100, 100, 15), CandlesWithGap(100, 100, 15)}

\* Bodies of the Open-Meteo forecast, flattened: the temperature and the
\* code of current_weather, and the three lists of daily.  A missing
\* current_weather or daily reads as all of its fields missing.
WeatherBodies ==
  [temperature : {Absent, JNum(2430)},
   weathercode : {None, Num(0), Num(61)},
   temperature_2m_max : {<< >>, <<JNum(3050)>>},
   temperature_2m_min : {<< >>, <<JNum(1820)>>},
   daily_weathercode : {<< >>, <<Num(3)>>, <<Num(9999)>>}]

NoWeatherBody ==
  [temperature |-> Absent, weathercode |-> None, temperature_2m_max |-> << >>,
   temperature_2m_min |-> << >>, daily_weathercode |-> << >>]

\* The "data" of a successful Tet countdown answer.
TetBodies == {[remainingDays |-> Absent], [remainingDays |-> JNum(105)]}

\* The "data" of a successful lunar-date answer.
LunarBodies ==
  {[day |-> Absent, month |-> Absent, sexagenaryCycle |-> Absent],
   [day |-> JNum(15), month |-> JNum(9),
    sexagenaryCycle |-> JStr(<<"B", "i", "n", "h", " ", "N", "g", "o">>)]}

\* The local hours a weather tick may read off the clock.
Hours == {5, 6, 17, 18}

\* The date a calendar tick reads off the clock.
Today == [day |-> 4, month |-> 11, year |-> 2026]

\* vn_timestamp_str(): the clock's text, one value here.
vn_timestamp_str == "dd/mm/YYYY HH:MM"

\* The icon tables load_weather_icons can deliver.
FullIcons == [k \in IconKeys |-> "icon:" \o k]
NaOnlyIcons == [k \in {"na"} |-> "icon:na"]
EmptyIcons == [k \in {} |-> ""]
\* A table that has every key, with an empty text everywhere but at "na".
BlankIcons == [k \in IconKeys |-> IF k = "na" THEN "icon:na" ELSE ""]

\* The configurations the model starts from: WEATHER_DAY_ONLY and the table.
Configs ==
  {[env |-> "", icons |-> FullIcons],
   [env |-> "true", icons |-> NaOnlyIcons],
   [env |-> "0", icons |-> EmptyIcons],
   [env |-> "1", icons |-> BlankIcons]}

(***************************************************************************)
(* fetch_rsi and the dict of fetch_binance_symbol                          *)
(***************************************************************************)

RECURSIVE Join(_)
Join(chars) == IF chars = << >> THEN "" ELSE Head(chars) \o Join(Tail(chars))

\* close_prices: the closes safe_float can read (the bodies of the model
\* hold numbers or null there).
close_prices(klines) ==
  LET good == SelectSeq(klines, LAMBDA k : safe_float(k, None) # None)
  IN  [i \in 1..Len(good) |-> safe_float(good[i], Num(0)).v]

\* fetch_rsi, of the response: any failure gives None.
fetch_rsi(resp) ==
  IF ~resp.ok THEN None
  ELSE CHOOSE rsi \in {IF Len(closes) < MinCloses THEN None
                       ELSE calculate_rsi(closes, DefaultPeriod) :
                         closes \in {close_prices(resp.klines)}} : TRUE

\* The dict fetch_binance_symbol returns.
BinanceDict(tickerBody, r4h, r1d) ==
  [price |-> safe_float(DictGet(tickerBody.lastPrice), None),
   change_percent |-> safe_float(DictGet(tickerBody.priceChangePercent), None),
   rsi_4h |-> r4h,
   rsi_1d |-> r1d]

NoData == [price |-> None, change_percent |-> None, rsi_4h |-> None, rsi_1d |-> None]

(***************************************************************************)
(* Payloads                                                                *)
(***************************************************************************)

NoPayload == [title |-> "", message |-> "", signature |-> "", icon |-> ""]

\* The thresholds of the ETH title, in hundredths.
RsiLow == 3000
RsiHigh == 7000

RsiTexts(d) ==
  (IF d.rsi_4h # None THEN "RSI 4h: " \o Fixed2(d.rsi_4h) ELSE "RSI 4h: N/A")
  \o "   " \o
  (IF d.rsi_1d # None THEN "1d: " \o Fixed2(d.rsi_1d) ELSE "1d: N/A")

PriceMessage(d) ==
  "Price: " \o fmt_price(d.price) \o " USD\nChange: "
  \o fmt_change(d.change_percent) \o "\n" \o RsiTexts(d)

BtcPayload(d) ==
  [title |-> "BTC", message |-> PriceMessage(d),
   signature |-> vn_timestamp_str, icon |-> BTC_ICON_B64]

\* a < b on two floats holding numbers.
FloatLess(a, b) == a.t = "num" /\ b.t = "num" /\ a.v < b.v

\* A faulty variant of EthTitle whose comparisons include the thresholds
\* (<= 30, >= 70).  C21 must tell it from EthTitle.
EthTitleInclusive(r4h, r4h_btc) ==
  IF r4h # None /\ r4h_btc # None
     /\ ~FloatLess(Num(RsiLow), r4h) /\ ~FloatLess(Num(RsiLow), r4h_btc)
  THEN "ETH (BUY ^)"
  ELSE IF r4h # None /\ r4h_btc # None
          /\ ~FloatLess(r4h, Num(RsiHigh)) /\ ~FloatLess(r4h_btc, Num(RsiHigh))
  THEN "ETH (SELL v)"
  ELSE "ETH"

EthTitle(r4h, r4h_btc) ==
  IF r4h # None /\ r4h_btc # None
     /\ FloatLess(r4h, Num(RsiLow)) /\ FloatLess(r4h_btc, Num(RsiLow))
  THEN "ETH (BUY ^)"
  ELSE IF r4h # None /\ r4h_btc # None
          /\ FloatLess(Num(RsiHigh), r4h) /\ FloatLess(Num(RsiHigh), r4h_btc)
  THEN "ETH (SELL v)"
  ELSE "ETH"

EthPayload(d, d_btc) ==
  [title |-> EthTitle(d.rsi_4h, d_btc.rsi_4h), message |-> PriceMessage(d),
   signature |-> vn_timestamp_str, icon |-> ETH_ICON_B64]

\* The dict fetch_weather_today returns.
WeatherDict(b) ==
  [temp_now |-> safe_float(DictGet(b.temperature), None),
   tmin |-> IF Len(b.temperature_2m_min) > 0
            THEN safe_float(b.temperature_2m_min[1], None) ELSE None,
   tmax |-> IF Len(b.temperature_2m_max) > 0
            THEN safe_float(b.temperature_2m_max[1], None) ELSE None,
   code_now |-> b.weathercode,
   code_day |-> IF Len(b.daily_weathercode) > 0 THEN b.daily_weathercode[1] ELSE None]

\* f"{t:.0f}<degree>C" if t is a number, "--<degree>C" else.
Degrees(t) == IF t # None THEN Fixed0(t) \o "C" ELSE "--C"

\* The city of the weather message (WEATHER_CITY, its default).
City == "Di Linh"

WeatherPayload(w, env, hour, icons) ==
  [title |-> Degrees(w.temp_now),
   message |-> City \o "\n" \o weather_desc_vi(PyOr(w.code_now, w.code_day))
               \o "\nH:" \o Degrees(w.tmax) \o "  L:" \o Degrees(w.tmin),
   signature |-> vn_timestamp_str,
   icon |-> get_weather_icon_b64(PyOr(w.code_now, w.code_day), env, hour, icons)]

\* str() of a value read with dict.get(key, default): the default when the
\* key is missing.
GetStr(j, default) ==
  CASE j.t = "absent" -> default
    [] j.t = "null" -> "None"
    [] j.t = "num" -> ToString(j.n)
    [] j.t = "str" -> Join(j.s)

\* The signature of the calendar payload.
DaySignature == "++++++++++"

DayPayload(count, lunar, today) ==
  [title |-> "Con " \o count \o " ngay den TET",
   message |-> "Hom nay: " \o ToString(today.day) \o "/" \o ToString(today.month)
               \o "/" \o ToString(today.year) \o "\nAm lich: "
               \o GetStr(lunar.day, "0") \o "/" \o GetStr(lunar.month, "0")
               \o "  " \o GetStr(lunar.sexagenaryCycle, "N/A"),
   signature |-> DaySignature,
   icon |-> TET_ICON_B64]

(***************************************************************************)
(* The state                                                               *)
(***************************************************************************)

VARIABLES
  program,          \* which entry point runs: "app" (app.py), "main" (main.py)
  env_day_only,     \* WEATHER_DAY_ONLY, stripped and lowered
  icons,            \* WEATHER_ICONS
  lifespan,         \* lifespan(): "init", "running", "shutdown", "stopped"
  cancelRequested,  \* _task.cancel() was called and not yet delivered
  pc,               \* where ticker_loop stands (see Positions)
  idx,              \* the rotation cursor of ticker_loop
  kind,             \* the kind of the current (or last) tick
  sym,              \* the symbol fetch_binance_symbol is fetching
  body,             \* fetch_binance_symbol: the ticker body (data)
  rsi_4h,           \* fetch_binance_symbol: the local rsi_4h
  data,             \* ticker_loop: the dict of the tick's own symbol
  dayCount,         \* ticker_loop: str(dayCount) of the calendar branch
  payload,          \* the arguments of the send_to_dot_text_api call
  outcome,          \* how the last resolved tick ended: "none", "ok", "fail"
  failStep,         \* history: the step the last failed tick failed at
  pushed,           \* history: the push of this tick: "no", "ok", "fail"
  failedFetches,    \* history: the fetches of this tick that failed
  lastPriceRaw,     \* history: lastPrice of this tick's own ticker body
                    \* (main.py: of the last ticker body that was read)
  tickIdx,          \* history: idx when this tick began
  weatherBody,      \* history: the weather body of this tick
  published,        \* history: the kinds published, in order
  retryKind,        \* history: the kind whose last tick failed, or "NONE"
  activeTicks,      \* history: ticks begun and not yet resolved
  display,          \* the Dot device: the kind it shows and the tick that pushed it
  calc,             \* the last call of a pure function: [op, args, result]
  fetchIdx,         \* main.py: the position in SYMBOLS of the running fetch
  results           \* main.py: the results list of fetch_crypto_prices_binance

vars ==
  <<program, env_day_only, icons, lifespan, cancelRequested, pc, idx, kind,
    sym, body, rsi_4h, data, dayCount, payload, outcome, failStep, pushed,
    failedFetches, lastPriceRaw, tickIdx, weatherBody, published, retryKind,
    activeTicks, display, calc,
    fetchIdx, results>>

config == <<program, env_day_only, icons>>
mainLocals == <<fetchIdx, results>>
life == <<lifespan, cancelRequested>>
locals == <<sym, body, rsi_4h, data, dayCount>>
tickHistory == <<failStep, pushed, failedFetches, lastPriceRaw, tickIdx, weatherBody>>
runHistory == <<outcome, published, retryKind, activeTicks>>

\* seq of ticker_loop (1-based here).
seq == <<"BTC", "ETH", "WEATHER", "DAY">>

\* A faulty variant of KindAt that never reaches the last kind: the index is
\* taken modulo len(seq) - 1.  C3 must tell it from KindAt.
KindAtSkippingLast(i) == seq[(i % (Len(seq) - 1)) + 1]

\* seq[i % len(seq)]
KindAt(i) == seq[(i % Len(seq)) + 1]

\* The symbol a price kind shows.
SymbolOf(k) == IF k = "BTC" THEN "BTCUSDT" ELSE "ETHUSDT"

\* The positions of ticker_loop: "none" (no task yet), "top" (the head of the
\* while loop), one per awaited call ("fetch" is main.py's), "sleep", and how
\* the task can end:
\* "cancelled" (CancelledError) and "crashed" (another exception left the
\* loop).
TickPositions ==
  {"ticker", "rsi_4h", "rsi_1d", "weather", "tet", "lunar", "send", "fetch"}
Positions == {"none", "top", "sleep", "cancelled", "crashed"} \cup TickPositions

InTick == pc \in TickPositions

\* The kind a payload shows, read off its icon.
PayloadKind(p) ==
  CASE p.icon = BTC_ICON_B64 -> "BTC"
    [] p.icon = ETH_ICON_B64 -> "ETH"
    [] p.icon = TET_ICON_B64 -> "DAY"
    [] OTHER -> "WEATHER"

\* No pure function was called on its own.
NoCalc == [op |-> "none", args |-> << >>, result |-> ""]

\* What the Dot device shows: the kind of the payload and the tick (its idx)
\* whose push put it there; nothing of this program at the start.
NoDisplay == [kind |-> "NONE", tick |-> 0 - 1]
Shown(p, tick) == [kind |-> PayloadKind(p), tick |-> tick]

Init ==
  /\ program \in {"app", "main"}
  /\ \E c \in Configs : env_day_only = c.env /\ icons = c.icons
  /\ program = "main" => (env_day_only = "" /\ icons = FullIcons)
  /\ lifespan = "init"
  /\ cancelRequested = FALSE
  /\ pc = "none"
  /\ idx = 0
  /\ kind = "NONE"
  /\ sym = ""
  /\ body = NoBody
  /\ rsi_4h = None
  /\ data = NoData
  /\ dayCount = ""
  /\ payload = NoPayload
  /\ outcome = "none"
  /\ failStep = "none"
  /\ pushed = "no"
  /\ failedFetches = {}
  /\ lastPriceRaw = Absent
  /\ tickIdx = 0
  /\ weatherBody = NoWeatherBody
  /\ published = << >>
  /\ retryKind = "NONE"
  /\ activeTicks = 0
  /\ display = NoDisplay
  /\ calc = NoCalc
  /\ fetchIdx = 0
  /\ results = << >>

(***************************************************************************)
(* lifespan                                                                *)
(***************************************************************************)

\* Startup: _task = asyncio.create_task(ticker_loop()).
Startup ==
  /\ program = "app"
  /\ lifespan = "init"
  /\ lifespan' = "running"
  /\ pc' = "top"
  /\ UNCHANGED <<config, calc, display, mainLocals, cancelRequested, idx, kind, locals, payload,
                 tickHistory, runHistory>>

\* Shutdown: _task.cancel(), then await _task.
Shutdown ==
  /\ program = "app"
  /\ lifespan = "running"
  /\ lifespan' = "shutdown"
  /\ cancelRequested' = (pc \notin {"cancelled", "crashed"})
  /\ UNCHANGED <<config, calc, display, mainLocals, pc, idx, kind, locals, payload, tickHistory, runHistory>>

\* A faulty variant of TaskCancelled in which the except of the loop catches
\* the CancelledError like any failure of a tick: the tick is given up and
\* the loop goes to its sleep.  C26 must tell it from TaskCancelled.
TaskCancelledCaught ==
  /\ program = "app"
  /\ cancelRequested
  /\ cancelRequested' = FALSE
  /\ pc' = "sleep"
  /\ activeTicks' = 0
  /\ sym' = "" /\ body' = NoBody /\ rsi_4h' = None /\ data' = NoData
  /\ dayCount' = "" /\ payload' = NoPayload
  /\ display' \in IF pc = "send" THEN {display, Shown(payload, tickIdx)}
                  ELSE {display}
  /\ UNCHANGED <<config, calc, mainLocals, lifespan, idx, kind, tickHistory,
                 outcome, published, retryKind>>

\* The task's next step after cancel(): CancelledError is raised at the await
\* it is suspended in.  It is no Exception, so neither fetch_rsi nor the loop
\* catches it, and the task ends.  A push it cuts off may have reached the
\* device.
TaskCancelled ==
  /\ program = "app"
  /\ cancelRequested
  /\ cancelRequested' = FALSE
  /\ pc' = "cancelled"
  /\ activeTicks' = 0
  /\ sym' = "" /\ body' = NoBody /\ rsi_4h' = None /\ data' = NoData
  /\ dayCount' = "" /\ payload' = NoPayload
  /\ display' \in IF pc = "send" THEN {display, Shown(payload, tickIdx)}
                  ELSE {display}
  /\ UNCHANGED <<config, calc, mainLocals, lifespan, idx, kind, tickHistory,
                 outcome, published, retryKind>>

\* await _task returns (CancelledError is swallowed) and lifespan ends.
ShutdownDone ==
  /\ program = "app"
  /\ lifespan = "shutdown"
  /\ pc \in {"cancelled", "crashed"}
  /\ lifespan' = "stopped"
  /\ UNCHANGED <<config, calc, display, mainLocals, cancelRequested, pc, idx, kind, locals, payload,
                 tickHistory, runHistory>>

(***************************************************************************)
(* ticker_loop                                                             *)
(***************************************************************************)

\* The task runs unless a cancellation is waiting for it.
Running == program = "app" /\ ~cancelRequested

\* A faulty variant of TickFailed that moves on to the next kind after a
\* failure (idx += 1 in the except branch).  C2 must tell it from TickFailed.
TickFailedAdvancing(step) ==
  /\ outcome' = "fail"
  /\ failStep' = step
  /\ idx' = idx + 1
  /\ pc' = "sleep"
  /\ activeTicks' = activeTicks - 1
  /\ retryKind' = kind
  /\ sym' = "" /\ body' = NoBody /\ rsi_4h' = None /\ data' = NoData
  /\ dayCount' = ""
  /\ payload' = NoPayload
  /\ UNCHANGED <<config, calc, mainLocals, life, kind, lastPriceRaw, tickIdx, published>>

\* A faulty variant of TickFailed without the except branch: the exception
\* leaves the loop and the task ends.  C5 must tell it from TickFailed.
TickFailedEscaping(step) ==
  /\ outcome' = "fail"
  /\ failStep' = step
  /\ idx' = idx
  /\ pc' = "crashed"
  /\ activeTicks' = activeTicks - 1
  /\ retryKind' = kind
  /\ sym' = "" /\ body' = NoBody /\ rsi_4h' = None /\ data' = NoData
  /\ dayCount' = ""
  /\ payload' = NoPayload
  /\ UNCHANGED <<config, calc, mainLocals, life, kind, lastPriceRaw, tickIdx, published>>

\* The except branch of the loop: log, and go to sleep.  The caller says
\* what becomes of pushed and failedFetches.
TickFailed(step) ==
  /\ outcome' = "fail"
  /\ failStep' = step
  /\ idx' = idx
  /\ pc' = "sleep"
  /\ activeTicks' = activeTicks - 1
  /\ retryKind' = kind
  /\ sym' = "" /\ body' = NoBody /\ rsi_4h' = None /\ data' = NoData
  /\ dayCount' = ""
  /\ payload' = NoPayload
  /\ UNCHANGED <<config, calc, mainLocals, life, kind, lastPriceRaw, tickIdx, published>>

\* A faulty variant of BeginTick driven by a timer: a tick starts whether or
\* not the previous one is resolved.  C6 must tell it from BeginTick.
BeginTickOnTimer ==
  /\ Running
  /\ pc \in {"top", "sleep"} \cup TickPositions
  /\ idx < MaxIdx
  /\ kind' = KindAt(idx)
  /\ activeTicks' = activeTicks + 1
  /\ pc' = CASE KindAt(idx) \in {"BTC", "ETH"} -> "ticker"
             [] KindAt(idx) = "WEATHER" -> "weather"
             [] OTHER -> "tet"
  /\ sym' = IF KindAt(idx) \in {"BTC", "ETH"} THEN SymbolOf(KindAt(idx)) ELSE ""
  /\ failStep' = "none" /\ pushed' = "no" /\ failedFetches' = {}
  /\ lastPriceRaw' = Absent
  /\ tickIdx' = idx
  /\ weatherBody' = NoWeatherBody
  /\ UNCHANGED <<config, calc, display, mainLocals, life, idx, body, rsi_4h, data, dayCount, payload,
                 outcome, published, retryKind>>

\* The head of the loop up to the first await of the branch.
BeginTick ==
  /\ Running
  /\ pc = "top"
  /\ idx < MaxIdx
  /\ kind' = KindAt(idx)
  /\ activeTicks' = activeTicks + 1
  /\ pc' = CASE KindAt(idx) \in {"BTC", "ETH"} -> "ticker"
             [] KindAt(idx) = "WEATHER" -> "weather"
             [] OTHER -> "tet"
  /\ sym' = IF KindAt(idx) \in {"BTC", "ETH"} THEN SymbolOf(KindAt(idx)) ELSE ""
  /\ failStep' = "none" /\ pushed' = "no" /\ failedFetches' = {}
  /\ lastPriceRaw' = Absent
  /\ tickIdx' = idx
  /\ weatherBody' = NoWeatherBody
  /\ UNCHANGED <<config, calc, display, mainLocals, life, idx, body, rsi_4h, data, dayCount, payload,
                 outcome, published, retryKind>>

\* A faulty variant of FetchTicker that forgives a failed ticker request for
\* the paired BTC data of an ETH tick and goes on with an empty body.  C23
\* must tell it from FetchTicker.
FetchTickerSparingPair ==
  /\ Running
  /\ pc = "ticker"
  /\ \/ /\ sym = SymbolOf(kind)
        /\ failedFetches' = failedFetches \cup {"ticker"}
        /\ pushed' = pushed /\ display' = display
        /\ weatherBody' = weatherBody
        /\ TickFailed("ticker")
     \/ /\ \/ /\ sym # SymbolOf(kind)
              /\ body' = NoBody
              /\ failedFetches' = failedFetches \cup {"ticker"}
              /\ lastPriceRaw' = lastPriceRaw
           \/ /\ failedFetches' = failedFetches
              /\ \E b \in TickerBodies :
                   /\ body' = b
                   /\ lastPriceRaw' = IF sym = SymbolOf(kind) THEN b.lastPrice
                                      ELSE lastPriceRaw
        /\ pc' = "rsi_4h"
        /\ UNCHANGED <<config, calc, display, mainLocals, life, idx, kind, sym, rsi_4h, data, dayCount,
                       payload, failStep, pushed, tickIdx,
                       weatherBody, runHistory>>

\* fetch_binance_symbol: the ticker request.
FetchTicker ==
  /\ Running
  /\ pc = "ticker"
  /\ \/ /\ failedFetches' = failedFetches \cup {"ticker"}
        /\ pushed' = pushed /\ display' = display
        /\ weatherBody' = weatherBody
        /\ TickFailed("ticker")
     \/ /\ \E b \in TickerBodies :
             /\ body' = b
             /\ lastPriceRaw' = IF sym = SymbolOf(kind) THEN b.lastPrice
                                ELSE lastPriceRaw
        /\ pc' = "rsi_4h"
        /\ UNCHANGED <<config, calc, display, mainLocals, life, idx, kind, sym, rsi_4h, data, dayCount,
                       payload, failStep, pushed, failedFetches, tickIdx,
                       weatherBody, runHistory>>

\* fetch_binance_symbol: rsi_4h = await fetch_rsi(client, symbol, "4h").
FetchRsi4h ==
  /\ Running
  /\ pc = "rsi_4h"
  /\ \/ /\ rsi_4h' = fetch_rsi(Failed)
        /\ failedFetches' = failedFetches \cup {"klines_4h"}
     \/ /\ \E k \in KlineBodies("4h") : rsi_4h' = fetch_rsi([ok |-> TRUE, klines |-> k])
        /\ failedFetches' = failedFetches
  /\ pc' = "rsi_1d"
  /\ UNCHANGED <<config, calc, display, mainLocals, life, idx, kind, sym, body, data, dayCount, payload,
                 failStep, pushed, lastPriceRaw, tickIdx, weatherBody, runHistory>>

\* What follows the return of fetch_binance_symbol with dict d.
AfterBinance(d) ==
  IF kind = "ETH" /\ sym = "ETHUSDT"
  THEN \* data is set; data_btc = await fetch_binance_symbol(client, "BTCUSDT")
       /\ data' = d
       /\ sym' = "BTCUSDT"
       /\ body' = NoBody
       /\ rsi_4h' = None
       /\ pc' = "ticker"
       /\ UNCHANGED <<config, calc, display, mainLocals, life, idx, kind, dayCount, payload, failStep,
                      pushed, lastPriceRaw, tickIdx, weatherBody, runHistory>>
  ELSE LET own == IF kind = "BTC" THEN d ELSE data
       IN  IF own.price = None
           THEN \* raise RuntimeError("... price missing")
                /\ pushed' = pushed /\ display' = display
                /\ weatherBody' = weatherBody
                /\ TickFailed("price")
           ELSE /\ payload' = IF kind = "BTC" THEN BtcPayload(own)
                              ELSE EthPayload(own, d)
                /\ pc' = "send"
                /\ sym' = "" /\ body' = NoBody /\ rsi_4h' = None /\ data' = NoData
                /\ UNCHANGED <<config, calc, display, mainLocals, life, idx, kind, dayCount, failStep,
                               pushed, lastPriceRaw, tickIdx, weatherBody,
                               runHistory>>

\* fetch_binance_symbol: rsi_1d = await fetch_rsi(client, symbol, "1d"), the
\* return of the dict, and the loop up to its next await.
FetchRsi1d ==
  /\ Running
  /\ pc = "rsi_1d"
  /\ \/ /\ failedFetches' = failedFetches \cup {"klines_1d"}
        /\ \E d \in {BinanceDict(body, rsi_4h, fetch_rsi(Failed))} : AfterBinance(d)
     \/ /\ failedFetches' = failedFetches
        /\ \E k \in KlineBodies("1d") :
             \E d \in {BinanceDict(body, rsi_4h, fetch_rsi([ok |-> TRUE, klines |-> k]))} :
               AfterBinance(d)

\* A faulty variant of FetchWeather that swallows a failed fetch and goes on
\* with an empty answer.  C7 must tell it from FetchWeather.
FetchWeatherSwallowing ==
  /\ Running
  /\ pc = "weather"
  /\ \/ /\ failedFetches' = failedFetches \cup {"weather"}
        /\ payload' = WeatherPayload(WeatherDict(NoWeatherBody), env_day_only, 6, icons)
        /\ weatherBody' = NoWeatherBody
     \/ /\ failedFetches' = failedFetches
        /\ \E b \in WeatherBodies, h \in Hours :
             /\ payload' = WeatherPayload(WeatherDict(b), env_day_only, h, icons)
             /\ weatherBody' = b
  /\ pc' = "send"
  /\ UNCHANGED <<config, calc, display, mainLocals, life, idx, kind, locals, failStep, pushed,
                 lastPriceRaw, tickIdx, runHistory>>

\* A faulty variant of FetchWeather that raises when a number of the answer
\* is missing.  C10 must tell it from FetchWeather.
FetchWeatherStrict ==
  /\ Running
  /\ pc = "weather"
  /\ \/ /\ failedFetches' = failedFetches \cup {"weather"}
        /\ pushed' = pushed /\ display' = display
        /\ weatherBody' = weatherBody
        /\ TickFailed("weather")
     \/ \E b \in WeatherBodies, h \in Hours :
          LET w == WeatherDict(b)
          IN  IF None \in {w.temp_now, w.tmax, w.tmin}
              THEN /\ failedFetches' = failedFetches
                   /\ pushed' = pushed /\ display' = display
                   /\ weatherBody' = b
                   /\ TickFailed("weather")
              ELSE /\ payload' = WeatherPayload(w, env_day_only, h, icons)
                   /\ weatherBody' = b
                   /\ pc' = "send"
                   /\ UNCHANGED <<config, calc, display, mainLocals, life, idx, kind, locals,
                                  failStep, pushed, failedFetches, lastPriceRaw,
                                  tickIdx, runHistory>>

\* The weather branch up to the push.
FetchWeather ==
  /\ Running
  /\ pc = "weather"
  /\ \/ /\ failedFetches' = failedFetches \cup {"weather"}
        /\ pushed' = pushed /\ display' = display
        /\ weatherBody' = weatherBody
        /\ TickFailed("weather")
     \/ /\ pc' = "send"
        /\ \E b \in WeatherBodies, h \in Hours :
             /\ weatherBody' = b
             /\ payload' = WeatherPayload(WeatherDict(b), env_day_only, h, icons)
        /\ UNCHANGED <<config, calc, display, mainLocals, life, idx, kind, locals, failStep, pushed,
                       failedFetches, lastPriceRaw, tickIdx, runHistory>>

\* The calendar branch: fetch_tet_countdown.
FetchTet ==
  /\ Running
  /\ pc = "tet"
  /\ \/ /\ failedFetches' = failedFetches \cup {"tet"}
        /\ pushed' = pushed /\ display' = display
        /\ weatherBody' = weatherBody
        /\ TickFailed("tet")
     \/ /\ \E b \in TetBodies : dayCount' = GetStr(b.remainingDays, "0")
        /\ pc' = "lunar"
        /\ UNCHANGED <<config, calc, display, mainLocals, life, idx, kind, sym, body, rsi_4h, data, payload,
                       tickHistory, runHistory>>

\* A faulty variant of FetchLunar that swallows a failed fetch and builds
\* the payload from the defaults.  C9 must tell it from FetchLunar.
FetchLunarSwallowing ==
  /\ Running
  /\ pc = "lunar"
  /\ \/ /\ failedFetches' = failedFetches \cup {"lunar"}
        /\ payload' = DayPayload(dayCount,
                         [day |-> Absent, month |-> Absent, sexagenaryCycle |-> Absent],
                         Today)
     \/ /\ failedFetches' = failedFetches
        /\ \E b \in LunarBodies : payload' = DayPayload(dayCount, b, Today)
  /\ pc' = "send"
  /\ dayCount' = ""
  /\ UNCHANGED <<config, calc, display, mainLocals, life, idx, kind, sym, body, rsi_4h, data,
                 failStep, pushed, lastPriceRaw, tickIdx, weatherBody, runHistory>>

\* The calendar branch: fetch_lunar_date, up to the push.
FetchLunar ==
  /\ Running
  /\ pc = "lunar"
  /\ \/ /\ failedFetches' = failedFetches \cup {"lunar"}
        /\ pushed' = pushed /\ display' = display
        /\ weatherBody' = weatherBody
        /\ TickFailed("lunar")
     \/ /\ \E b \in LunarBodies : payload' = DayPayload(dayCount, b, Today)
        /\ pc' = "send"
        /\ dayCount' = ""
        /\ UNCHANGED <<config, calc, display, mainLocals, life, idx, kind, sym, body, rsi_4h, data,
                       tickHistory, runHistory>>

\* A faulty variant of Send whose request never reaches the device although
\* the call returns.  C12 must tell it from Send.
SendShowingNothing ==
  /\ Running
  /\ pc = "send"
  /\ \/ /\ pushed' = "fail"
        /\ display' \in {display, Shown(payload, tickIdx)}
        /\ failedFetches' = failedFetches
        /\ weatherBody' = weatherBody
        /\ TickFailed("send")
     \/ /\ pushed' = "ok"
        /\ display' = display
        /\ idx' = idx + 1
        /\ outcome' = "ok"
        /\ published' = Append(published, PayloadKind(payload))
        /\ retryKind' = "NONE"
        /\ activeTicks' = activeTicks - 1
        /\ payload' = NoPayload
        /\ pc' = "sleep"
        /\ UNCHANGED <<config, calc, mainLocals, life, kind, locals, failStep, failedFetches,
                       lastPriceRaw, tickIdx, weatherBody>>

\* A faulty variant of Send that tries the push again in the same tick when
\* it failed.  C11 must tell it from Send.
SendRetrying ==
  /\ Running
  /\ pc = "send"
  /\ \/ /\ pushed' = "fail"
        /\ display' \in {display, Shown(payload, tickIdx)}
        /\ UNCHANGED <<config, calc, mainLocals, life, idx, kind, locals, payload, pc,
                       failStep, failedFetches, lastPriceRaw, tickIdx, weatherBody,
                       runHistory>>
     \/ /\ pushed' = "ok"
        /\ display' = Shown(payload, tickIdx)
        /\ idx' = idx + 1
        /\ outcome' = "ok"
        /\ published' = Append(published, PayloadKind(payload))
        /\ retryKind' = "NONE"
        /\ activeTicks' = activeTicks - 1
        /\ payload' = NoPayload
        /\ pc' = "sleep"
        /\ UNCHANGED <<config, calc, mainLocals, life, kind, locals, failStep, failedFetches,
                       lastPriceRaw, tickIdx, weatherBody>>

\* A faulty variant of Send that advances idx whether or not the push went
\* through (idx += 1 outside the try).  C1 must tell it from Send.
SendAdvancingOnFailure ==
  /\ Running
  /\ pc = "send"
  /\ \/ /\ pushed' = "fail"
        /\ display' \in {display, Shown(payload, tickIdx)}
        /\ outcome' = "fail"
        /\ failStep' = "send"
        /\ retryKind' = kind
        /\ published' = published
     \/ /\ pushed' = "ok"
        /\ display' = Shown(payload, tickIdx)
        /\ outcome' = "ok"
        /\ failStep' = failStep
        /\ retryKind' = "NONE"
        /\ published' = Append(published, PayloadKind(payload))
  /\ idx' = idx + 1
  /\ activeTicks' = activeTicks - 1
  /\ payload' = NoPayload
  /\ pc' = "sleep"
  /\ UNCHANGED <<config, calc, mainLocals, life, kind, locals, failedFetches,
                 lastPriceRaw, tickIdx, weatherBody>>

\* A faulty variant of Send that stores the index reduced modulo len(seq).
\* C4 must tell it from Send.
SendStoringModulo ==
  /\ Running
  /\ pc = "send"
  /\ \/ /\ pushed' = "fail"
        /\ display' \in {display, Shown(payload, tickIdx)}
        /\ failedFetches' = failedFetches
        /\ weatherBody' = weatherBody
        /\ TickFailed("send")
     \/ /\ pushed' = "ok"
        /\ display' = Shown(payload, tickIdx)
        /\ idx' = (idx + 1) % Len(seq)
        /\ outcome' = "ok"
        /\ published' = Append(published, PayloadKind(payload))
        /\ retryKind' = "NONE"
        /\ activeTicks' = activeTicks - 1
        /\ payload' = NoPayload
        /\ pc' = "sleep"
        /\ UNCHANGED <<config, calc, mainLocals, life, kind, locals, failStep, failedFetches,
                       lastPriceRaw, tickIdx, weatherBody>>

\* await send_to_dot_text_api(...), then idx += 1; or the push raises.  When
\* it raises, the Dot API may have carried the request out all the same (the
\* answer is not 2xx, or does not arrive within the timeout of the client).
Send ==
  /\ Running
  /\ pc = "send"
  /\ \/ /\ pushed' = "fail"
        /\ display' \in {display, Shown(payload, tickIdx)}
        /\ failedFetches' = failedFetches
        /\ weatherBody' = weatherBody
        /\ TickFailed("send")
     \/ /\ pushed' = "ok"
        /\ display' = Shown(payload, tickIdx)
        /\ idx' = idx + 1
        /\ outcome' = "ok"
        /\ published' = Append(published, PayloadKind(payload))
        /\ retryKind' = "NONE"
        /\ activeTicks' = activeTicks - 1
        /\ payload' = NoPayload
        /\ pc' = "sleep"
        /\ UNCHANGED <<config, calc, mainLocals, life, kind, locals, failStep, failedFetches,
                       lastPriceRaw, tickIdx, weatherBody>>

\* await asyncio.sleep(interval) returns.
SleepDone ==
  /\ Running
  /\ pc = "sleep"
  /\ pc' = "top"
  /\ UNCHANGED <<config, calc, display, mainLocals, life, idx, kind, locals, payload, tickHistory, runHistory>>

(***************************************************************************)
(* main.py: the three-symbol price ticker                                  *)
(***************************************************************************)

SYMBOLS == <<"BTCUSDT", "ETHUSDT", "USDCUSDT">>

DISPLAY_MAP(symbol) ==
  CASE symbol = "BTCUSDT" -> "BTC"
    [] symbol = "ETHUSDT" -> "ETH"
    [] symbol = "USDCUSDT" -> "USDT"
    [] OTHER -> symbol

\* Python truthiness of a value of a JSON body.
JFalsy(j) ==
  \/ j.t \in {"absent", "null"}
  \/ (j.t = "str" /\ j.s = << >>)
  \/ (j.t = "num" /\ j.n = 0)

\* float(x) of a value of a JSON body; t = "error" when it raises.
PyFloat(j) ==
  CASE j.t = "num" -> Num(j.n)
    [] j.t = "str" -> ParseFloatText(j.s)
    [] OTHER -> [t |-> "error", v |-> 0]

\* float(data.get("lastPrice", "0") or "0")
MainPrice(j) ==
  LET got == IF j.t = "absent" THEN JStr(<<"0">>) ELSE j
  IN  PyFloat(IF JFalsy(got) THEN JStr(<<"0">>) ELSE got)

\* float(change_percent) if change_percent is not None else None
MainChange(j) == IF DictGet(j).t = "null" THEN None ELSE PyFloat(j)

\* main.py's format_price
format_price(price) ==
  IF price.t = "num" /\ price.v >= 100000
  THEN "$" \o fmt_price(price)
  ELSE "$" \o Fixed2(price)

\* main.py's format_change; the arrows are "NE" and "SE" here.
format_change(change_percent) ==
  LET nonneg == change_percent.t = "num" /\ change_percent.v >= 0
  IN  (IF nonneg THEN "NE" ELSE "SE") \o (IF nonneg THEN "+" ELSE "")
        \o Fixed1(change_percent) \o "%"

\* priority.get(symbol, 3)
Priority(symbol) ==
  CASE symbol = "BTC" -> 0 [] symbol = "ETH" -> 1 [] symbol = "USDT" -> 2
    [] OTHER -> 3

\* sorted(prices, key=key_fn): stable, by priority.
SortedByPriority(prices) ==
  SelectSeq(prices, LAMBDA q : Priority(q.symbol) = 0)
  \o SelectSeq(prices, LAMBDA q : Priority(q.symbol) = 1)
  \o SelectSeq(prices, LAMBDA q : Priority(q.symbol) = 2)
  \o SelectSeq(prices, LAMBDA q : Priority(q.symbol) = 3)

DisplayLine(q) ==
  IF q.change_percent_24h = None
  THEN q.symbol \o " " \o format_price(q.price)
  ELSE q.symbol \o " " \o format_price(q.price) \o " "
         \o format_change(q.change_percent_24h)

RECURSIVE JoinLines(_)
JoinLines(lines) ==
  IF lines = << >> THEN ""
  ELSE IF Len(lines) = 1 THEN lines[1]
  ELSE lines[1] \o "\n" \o JoinLines(Tail(lines))

create_display_message(prices) ==
  LET sorted == SortedByPriority(prices)
      first3 == SubSeq(sorted, 1, IF Len(sorted) < 3 THEN Len(sorted) ELSE 3)
  IN  JoinLines([i \in 1..Len(first3) |-> DisplayLine(first3[i])])

\* The title of main.py's message (DOT_TITLE, its default).
MainTitle == "Crypto Prices"

MainPayload(prices) ==
  [title |-> MainTitle, message |-> create_display_message(prices),
   signature |-> "Updated at HH:MM", icon |-> NoIcon]

\* on_startup: asyncio.create_task(ticker_loop()).
MainStartup ==
  /\ program = "main"
  /\ lifespan = "init"
  /\ lifespan' = "running"
  /\ pc' = "top"
  /\ UNCHANGED <<config, calc, display, mainLocals, cancelRequested, idx, kind, locals, payload,
                 tickHistory, runHistory>>

\* The head of the loop: fetch_crypto_prices_binance starts.
MainBeginTick ==
  /\ program = "main"
  /\ pc = "top"
  /\ pc' = "fetch"
  /\ fetchIdx' = 1
  /\ results' = << >>
  /\ activeTicks' = activeTicks + 1
  /\ failStep' = "none" /\ pushed' = "no" /\ failedFetches' = {}
  /\ UNCHANGED <<config, calc, display, life, idx, kind, locals, payload, lastPriceRaw,
                 tickIdx, weatherBody, outcome, published, retryKind>>

\* After the fetch of SYMBOLS[fetchIdx] left the list as res: the next
\* symbol, or the return of the list and the loop up to its next await.
MainAfterFetch(res) ==
  IF fetchIdx < Len(SYMBOLS)
  THEN /\ fetchIdx' = fetchIdx + 1
       /\ results' = res
       /\ pc' = "fetch"
       /\ UNCHANGED <<payload, failStep, outcome, activeTicks>>
  ELSE /\ fetchIdx' = 0
       /\ results' = << >>
       /\ IF res # << >>
          THEN /\ payload' = MainPayload(res)
               /\ pc' = "send"
               /\ UNCHANGED <<failStep, outcome, activeTicks>>
          ELSE \* logger.error("No price data received")
               /\ pc' = "sleep"
               /\ outcome' = "fail"
               /\ failStep' = "nodata"
               /\ activeTicks' = activeTicks - 1
               /\ UNCHANGED payload

\* One pass of the for loop of fetch_crypto_prices_binance.
MainFetch ==
  /\ program = "main"
  /\ pc = "fetch"
  /\ \/ \* the request raises, or its status is outside 2xx: next symbol
        /\ failedFetches' = failedFetches \cup {SYMBOLS[fetchIdx]}
        /\ lastPriceRaw' = lastPriceRaw
        /\ MainAfterFetch(results)
     \/ /\ failedFetches' = failedFetches
        /\ \E b \in TickerBodies :
             LET price == MainPrice(b.lastPrice)
                 change == MainChange(b.priceChangePercent)
             IN  /\ lastPriceRaw' = b.lastPrice
                 /\ IF price.t = "error" \/ change.t = "error"
                    THEN \* float() raises: the except of the pass logs it
                         MainAfterFetch(results)
                    ELSE MainAfterFetch(Append(results,
                           [symbol |-> DISPLAY_MAP(SYMBOLS[fetchIdx]),
                            price |-> price,
                            change_percent_24h |-> change]))
  /\ UNCHANGED <<config, calc, display, life, idx, kind, locals, pushed, tickIdx,
                 weatherBody, published, retryKind>>

\* await send_to_dot_text_api(...) of main.py; its exception is caught by
\* the loop.
MainSend ==
  /\ program = "main"
  /\ pc = "send"
  /\ \/ /\ pushed' = "fail"
        /\ display' \in {display, Shown(payload, 0)}
        /\ outcome' = "fail"
        /\ failStep' = "send"
     \/ /\ pushed' = "ok"
        /\ display' = Shown(payload, 0)
        /\ outcome' = "ok"
        /\ UNCHANGED failStep
  /\ payload' = NoPayload
  /\ activeTicks' = activeTicks - 1
  /\ pc' = "sleep"
  /\ UNCHANGED <<config, calc, mainLocals, life, idx, kind, locals, failedFetches,
                 lastPriceRaw, tickIdx, weatherBody, published, retryKind>>

\* await asyncio.sleep(interval_secs) returns.
MainSleepDone ==
  /\ program = "main"
  /\ pc = "sleep"
  /\ pc' = "top"
  /\ UNCHANGED <<config, calc, display, mainLocals, life, idx, kind, locals, payload,
                 tickHistory, runHistory>>

Next ==
  \/ Startup
  \/ Shutdown
  \/ TaskCancelled
  \/ ShutdownDone
  \/ BeginTick
  \/ FetchTicker
  \/ FetchRsi4h
  \/ FetchRsi1d
  \/ FetchWeather
  \/ FetchTet
  \/ FetchLunar
  \/ Send
  \/ SleepDone
  \/ MainStartup
  \/ MainBeginTick
  \/ MainFetch
  \/ MainSend
  \/ MainSleepDone

Spec == Init /\ [][Next]_vars

(***************************************************************************)
(* The rotation under fairness                                             *)
(* The event loop runs the task whenever the call it awaits has come to an *)
(* end, and every awaited call ends (the HTTP client has a timeout, the    *)
(* sleep is finite): weak fairness of the steps of the loop.  That a step  *)
(* which is tried again and again succeeds at some time is an assumption   *)
(* on the providers: strong fairness of the successful steps.  The event   *)
(* loop also delivers a cancellation and resumes lifespan when the task    *)
(* has ended: weak fairness of both.  Shutdown itself is under no          *)
(* fairness.                                                               *)
(***************************************************************************)

\* Any step of app.py's loop.
LoopStep ==
  \/ BeginTick
  \/ FetchTicker
  \/ FetchRsi4h
  \/ FetchRsi1d
  \/ FetchWeather
  \/ FetchTet
  \/ FetchLunar
  \/ Send
  \/ SleepDone

\* The ticker request for the tick's own symbol answers with a price that
\* safe_float reads.
OwnTickerOk ==
  /\ sym = SymbolOf(kind)
  /\ FetchTicker
  /\ pc' = "rsi_4h"
  /\ safe_float(DictGet(body'.lastPrice), None) # None

\* The ticker request for the paired BTC data of an ETH tick answers, in a
\* tick whose own price was read.
PairTickerOk ==
  /\ kind = "ETH" /\ sym = "BTCUSDT" /\ data.price # None
  /\ FetchTicker
  /\ pc' = "rsi_4h"

\* fetch_weather_today, fetch_tet_countdown, fetch_lunar_date return.
WeatherOk == FetchWeather /\ pc' = "send"
TetOk == FetchTet /\ pc' = "lunar"
LunarOk == FetchLunar /\ pc' = "send"

\* The push of a tick is answered with 2xx.
SendOk == Send /\ pushed' = "ok"

\* The successful steps by their place in the tick.  At most one disjunct of
\* a stage can be enabled in a state, and the kind of the ticks changes only
\* when idx does, so while the loop stays on one kind the fairness of a stage
\* is the fairness of the one step of that kind.
FirstFetchOk == OwnTickerOk \/ WeatherOk \/ TetOk
SecondFetchOk == PairTickerOk \/ LunarOk

\* app.py without WEATHER_DAY_ONLY.
InitLive == Init /\ program = "app" /\ env_day_only = ""

NextLive ==
  \/ Startup
  \/ Shutdown
  \/ TaskCancelled
  \/ ShutdownDone
  \/ LoopStep

SpecLive ==
  /\ InitLive
  /\ [][NextLive]_vars
  /\ WF_vars(Startup)
  /\ WF_vars(LoopStep)
  /\ WF_vars(TaskCancelled)
  /\ WF_vars(ShutdownDone)
  /\ SF_vars(FirstFetchOk)
  /\ SF_vars(SecondFetchOk)
  /\ SF_vars(SendOk)

(***************************************************************************)
(* The pure functions, called on their own                                 *)
(* SpecCalc calls one function once on inputs drawn from bounded sets and   *)
(* keeps the call in calc; the loops do not run.                           *)
(***************************************************************************)

\* Everything but calc.
loopVars ==
  <<program, env_day_only, icons, lifespan, cancelRequested, pc, idx, kind,
    sym, body, rsi_4h, data, dayCount, payload, outcome, failStep, pushed,
    failedFetches, lastPriceRaw, tickIdx, weatherBody, published, retryKind,
    activeTicks, display, fetchIdx, results>>

\* int(text) of a text that is an integer: an optional sign and digits.
PyInt(chars) ==
  IF chars[1] = "-" THEN 0 - DigitsVal(Tail(chars))
  ELSE IF chars[1] = "+" THEN DigitsVal(Tail(chars))
  ELSE DigitsVal(chars)

\* The least interval of app.py's loop, and of main.py's.
AppMinInterval == 30
MainMinInterval == 2

\* app.py: interval = int(os.getenv("INTERVAL_SECS", "60")), raised to 30.
interval(text) ==
  IF PyInt(text) < AppMinInterval THEN AppMinInterval ELSE PyInt(text)

\* A faulty variant of interval_secs without the max(..., 2).  C14 must tell
\* it from interval_secs.
interval_secs_unclamped(text) == PyInt(text)

\* main.py: interval_secs = max(int(os.getenv("INTERVAL_SECS", "600")), 2)
interval_secs(text) ==
  IF PyInt(text) > MainMinInterval THEN PyInt(text) ELSE MainMinInterval

\* Values of INTERVAL_SECS that are integers.
IntervalTexts ==
  {<<"-", "5">>, <<"0">>, <<"1">>, <<"2">>, <<"3">>, <<"5">>, <<"9">>,
   <<"1", "0">>, <<"2", "9">>, <<"3", "0">>, <<"3", "1">>, <<"6", "0">>,
   <<"6", "0", "0">>, <<"+", "4", "5">>, <<"0", "0", "7">>}

CallInterval ==
  /\ calc = NoCalc
  /\ \E text \in IntervalTexts :
       calc' = [op |-> "interval", args |-> <<text>>, result |-> interval(text)]
  /\ UNCHANGED loopVars

CallIntervalSecs ==
  /\ calc = NoCalc
  /\ \E text \in IntervalTexts :
       calc' = [op |-> "interval_secs", args |-> <<text>>,
                result |-> interval_secs(text)]
  /\ UNCHANGED loopVars

\* The periods and the lengths of the lists of closes calculate_rsi is
\* called with, and the closes (in hundredths).
MaxPeriod == 3
MaxCloses == 5
CloseValues == {100, 200, 300, 400}
PriceSeqs == UNION {[1..n -> CloseValues] : n \in 0..MaxCloses}

CallCalculateRsi ==
  /\ calc = NoCalc
  /\ \E prices \in PriceSeqs, period \in 1..MaxPeriod :
       calc' = [op |-> "calculate_rsi", args |-> <<prices, period>>,
                result |-> calculate_rsi(prices, period)]
  /\ UNCHANGED loopVars

\* The codes the icon functions are called with: none, every code of the
\* table, and codes outside it.
UnknownCodes == {0 - 1, 4, 50, 100, 9999}
CodeInputs == {None} \cup {Num(c) : c \in WeatherCodes \cup UnknownCodes}

\* Values of WEATHER_DAY_ONLY, stripped and lowered.
DayOnlyTexts == {"", "0", "false", "1", "true", "yes"}

CallIconKey ==
  /\ calc = NoCalc
  /\ \E code \in CodeInputs, day_only \in BOOLEAN, hour \in 0..23 :
       calc' = [op |-> "meteo_code_to_icon_key", args |-> <<code, day_only, hour>>,
                result |-> meteo_code_to_icon_key(code, day_only, hour)]
  /\ UNCHANGED loopVars

CallGetWeatherIcon ==
  /\ calc = NoCalc
  /\ \E code \in CodeInputs, env \in DayOnlyTexts, hour \in 0..23,
        table \in {FullIcons, NaOnlyIcons, EmptyIcons, BlankIcons} :
       calc' = [op |-> "get_weather_icon_b64", args |-> <<code, env, hour, table>>,
                result |-> get_weather_icon_b64(code, env, hour, table)]
  /\ UNCHANGED loopVars

InitCalc == Init /\ program = "app" /\ env_day_only = ""

NextCalc ==
  \/ CallInterval
  \/ CallIntervalSecs
  \/ CallCalculateRsi
  \/ CallIconKey
  \/ CallGetWeatherIcon

SpecCalc == InitCalc /\ [][NextCalc]_vars

(***************************************************************************)
(* The rotation cursor                                                     *)
(***************************************************************************)

\* C1: in app.py's ticker_loop idx changes only in the step that ends a tick
\* whose build and push both completed (the push returned, idx becomes
\* idx + 1); a tick that fails at any step ends with idx as it was when the
\* tick began.
C1_CursorChangesOnlyOnSuccess ==
  [][program = "app" =>
       /\ (idx' # idx =>
             /\ pc = "send" /\ pc' = "sleep"
             /\ payload # NoPayload
             /\ pushed' = "ok" /\ outcome' = "ok"
             /\ idx = tickIdx /\ idx' = idx + 1)
       /\ (InTick /\ pc' = "sleep" /\ outcome' = "fail" =>
             idx' = tickIdx /\ idx' = idx)]_vars

\* A tick that follows a published one failed at the push: idx is still 1.
C1_Witness ==
  /\ program = "app"
  /\ pc = "sleep" /\ outcome = "fail" /\ failStep = "send" /\ pushed = "fail"
  /\ idx = 1 /\ tickIdx = 1

\* C2: after a tick for kind K failed, the tick that starts next selects K
\* again, and until a tick for K is published nothing else is: the only
\* payload pushed is K's, and K stays the kind to retry through any number
\* of failures.
C2_SameKindRetried ==
  [][program = "app" /\ retryKind # "NONE" =>
       /\ (activeTicks' > activeTicks => kind' = retryKind)
       /\ (pushed' # pushed /\ pushed' # "no" =>
             kind = retryKind /\ PayloadKind(payload) = retryKind)
       /\ (retryKind' # retryKind =>
             /\ pushed' = "ok" /\ PayloadKind(payload) = retryKind
             /\ published' = Append(published, retryKind))]_vars

\* The retry of a failed ETH tick is about to push, with one kind published.
C2_Witness ==
  /\ program = "app"
  /\ retryKind = "ETH" /\ outcome = "fail" /\ kind = "ETH"
  /\ pc = "send" /\ payload.icon = ETH_ICON_B64
  /\ published = <<"BTC">>

\* C3: from idx = 0 the kinds are published in the order of seq (BTC, ETH,
\* WEATHER, DAY), one per published tick, and BTC follows DAY: the list of
\* published kinds is always seq repeated, it is as long as idx, and a tick
\* in flight is for the kind that comes next in it.
C3_PublishedInOrder ==
  program = "app" =>
    /\ \A i \in 1..Len(published) : published[i] = seq[((i - 1) % Len(seq)) + 1]
    /\ Len(published) = idx
    /\ (InTick => kind = seq[(Len(published) % Len(seq)) + 1])

\* Five ticks were published: seq once, then BTC again.
C3_Witness ==
  /\ program = "app"
  /\ published = <<"BTC", "ETH", "WEATHER", "DAY", "BTC">>

\* C4, as stated: the stored cursor is always less than len(seq).
C4_StoredCursorInRange ==
  program = "app" => idx \in 0..(Len(seq) - 1)

\* C4, amended: the stored idx is a counter that is never negative and never
\* reduced, a published tick adds exactly one to it, and the kind of a tick
\* is seq[idx mod len(seq)], so that the first kind follows the last.
C4_CursorCountsAndSelectsModulo ==
  [][program = "app" =>
       /\ idx >= 0
       /\ (idx' # idx => idx' = idx + 1)
       /\ (activeTicks' > activeTicks =>
             /\ kind' = seq[(idx % Len(seq)) + 1]
             /\ (idx % Len(seq) = 0 => kind' = "BTC"))]_vars

\* The tick after the first pass: idx is len(seq) and the kind is BTC.
C4_Witness ==
  /\ program = "app"
  /\ idx = Len(seq) /\ tickIdx = Len(seq) /\ InTick /\ kind = "BTC"

(***************************************************************************)
(* The loop                                                                *)
(***************************************************************************)

\* C5: no failure of a tick ends the loop (app.py and main.py): the task
\* never ends with an exception, after a failed tick the loop is at its
\* sleep or back at its head, the sleep can return, and at the head another
\* tick can start (below the bound of the model on idx).
C5_FailureNeverEndsLoop ==
  /\ pc # "crashed"
  /\ (failStep # "none" /\ pc # "cancelled" => pc \in {"sleep", "top"})
  /\ (pc = "sleep" /\ ~cancelRequested => ENABLED (SleepDone \/ MainSleepDone))
  /\ (pc = "top" /\ ~cancelRequested /\ (program = "app" => idx < MaxIdx) =>
        ENABLED (BeginTick \/ MainBeginTick))

\* A weather tick runs again after the weather tick before it failed.
C5_Witness ==
  /\ program = "app"
  /\ outcome = "fail" /\ retryKind = "WEATHER" /\ kind = "WEATHER"
  /\ pc = "weather"

\* C6: at most one tick is active: a tick is in flight exactly when one is
\* counted, a tick starts only at the head of the loop with none in
\* flight, the head is reached only from the start of the task or from the
\* end of the sleep, and the task is created once.
C6_OneActiveTick ==
  [][/\ activeTicks \in {0, 1} /\ activeTicks' \in {0, 1}
     /\ (InTick <=> activeTicks = 1)
     /\ (activeTicks' > activeTicks => pc = "top" /\ activeTicks = 0)
     /\ (pc' = "top" /\ pc # "top" => pc \in {"none", "sleep"})
     /\ (pc = "none" /\ pc' # "none" => lifespan = "init" /\ lifespan' = "running")]_vars

\* A second tick is in flight after the first was published.
C6_Witness ==
  /\ program = "app"
  /\ activeTicks = 1 /\ outcome = "ok" /\ idx = 1 /\ pc = "rsi_4h"

(***************************************************************************)
(* Failures of the fetches                                                 *)
(***************************************************************************)

\* C7, as stated: a tick in which any fetch failed pushes nothing and leaves
\* idx alone.
C7_AnyFetchFailureFailsTick ==
  program = "app" /\ failedFetches # {} => pushed = "no" /\ idx = tickIdx

\* The fetches whose failure fetch_rsi does not catch.
C7_RaisingFetches == {"ticker", "weather", "tet", "lunar"}

\* C7, amended: a failure of the ticker, weather, countdown or lunar-date
\* fetch ends the tick on the failure path (nothing pushed, idx as before);
\* a failure of a candle-series fetch makes that indicator None and the tick
\* goes on to its next step.
C7_RaisingFetchFailureFailsTick ==
  [][program = "app" =>
       /\ (failedFetches' \cap C7_RaisingFetches # {} =>
             /\ pushed' = "no" /\ idx' = tickIdx' /\ idx' = idx
             /\ ~InTick' /\ outcome' = "fail")
       /\ ("klines_4h" \in failedFetches' \ failedFetches =>
             pc' = "rsi_1d" /\ rsi_4h' = None)
       /\ ("klines_1d" \in failedFetches' \ failedFetches =>
             \/ pc' = "ticker" /\ data'.rsi_1d = None
             \/ pc' = "send" /\ payload' # NoPayload
             \/ failStep' = "price")]_vars

\* A tick whose 4h candle fetch failed was published and idx advanced.
C7_Witness ==
  /\ program = "app"
  /\ "klines_4h" \in failedFetches
  /\ pushed = "ok" /\ idx = tickIdx + 1

\* float() does not read j as a number.
C8_NonNumeric(j) ==
  \/ j.t \in {"absent", "null"}
  \/ (j.t = "str" /\ ParseFloatText(j.s).t # "num")

\* C8: in app.py a BTC or ETH tick whose own ticker body has lastPrice null,
\* missing or non-numeric pushes nothing and leaves idx alone.
C8_BadLastPriceFailsTick ==
  program = "app" /\ kind \in {"BTC", "ETH"} /\ C8_NonNumeric(lastPriceRaw) =>
    pushed = "no" /\ idx = tickIdx

\* C9: in a DAY tick a failure of the countdown fetch or of the lunar-date
\* fetch fails the build: no payload is made, nothing is pushed, idx stays.
C9_CalendarFetchFailureFailsTick ==
  program = "app" /\ failedFetches \cap {"tet", "lunar"} # {} =>
    /\ kind = "DAY"
    /\ payload = NoPayload /\ pushed = "no"
    /\ idx = tickIdx
    /\ outcome = "fail" /\ ~InTick

\* The lunar-date fetch of a DAY tick failed after the countdown was read.
C9_Witness ==
  /\ program = "app"
  /\ failedFetches = {"lunar"} /\ failStep = "lunar"
  /\ pc = "sleep" /\ idx = 3

\* The descriptions the weather bodies of the model can give.
C10_Descriptions == {"Thoi tiet", "Troi quang", "Mua nhe", "Nhieu may", "Ma 9999"}

\* C10: in a WEATHER tick whose fetch succeeded, whatever fields are missing,
\* a payload is made with "--" where a number is missing and the number
\* elsewhere, the tick goes on to the push, and a push that succeeds advances
\* idx.
C10_MissingWeatherFieldsArePlaceholders ==
  [][program = "app" =>
       /\ (pc = "weather" /\ pc' \notin {"weather", "cancelled"}
           /\ failedFetches' = failedFetches =>
             LET b == weatherBody'
                 hi == IF Len(b.temperature_2m_max) > 0 THEN "30C" ELSE "--C"
                 lo == IF Len(b.temperature_2m_min) > 0 THEN "18C" ELSE "--C"
             IN  /\ pc' = "send"
                 /\ b \in WeatherBodies
                 /\ payload'.title = (IF b.temperature.t = "num" THEN "24C" ELSE "--C")
                 /\ \E d \in C10_Descriptions :
                      payload'.message = "Di Linh\n" \o d \o "\nH:" \o hi \o "  L:" \o lo)
       /\ (pc = "send" /\ kind = "WEATHER" /\ pushed' = "ok" =>
             idx' = idx + 1 /\ published' = Append(published, "WEATHER"))]_vars

\* A weather answer with every field missing was published as the third kind.
C10_Witness ==
  /\ program = "app"
  /\ kind = "WEATHER" /\ pushed = "ok" /\ weatherBody = NoWeatherBody
  /\ idx = 3 /\ published = <<"BTC", "ETH", "WEATHER">>


(***************************************************************************)
(* Retries, the display, shutdown                                          *)
(***************************************************************************)

\* C11, as stated: once anything of a tick has failed, the tick makes no
\* further fetch and no push: it is no longer in flight.
C11_NothingAfterAnyFailure ==
  program = "app" /\ (failedFetches # {} \/ failStep # "none") => ~InTick

\* C11, amended: a tick makes at most one push attempt, and that attempt ends
\* the tick; after a failure that reaches the loop (failStep is set) nothing
\* is fetched or pushed until the sleep has returned and the next tick
\* starts at the head of the loop; a candle-series fetch that failed is not
\* tried again either, but the tick goes on with its next step.
C11_NothingRetriedInsideTick ==
  [][program = "app" =>
       /\ (pushed' # pushed /\ pushed' # "no" =>
             pc = "send" /\ pushed = "no" /\ ~InTick' /\ pc' = "sleep")
       /\ (failStep' # "none" => ~InTick' /\ pushed' \in {"no", "fail"})
       /\ (failStep # "none" /\ failStep' = "none" =>
             pc = "top" /\ activeTicks' > activeTicks)
       /\ (failStep # "none" /\ pc' # pc => pc' \in {"top", "cancelled"} \/ pc = "top")
       /\ ("klines_4h" \in failedFetches' \ failedFetches =>
             pc = "rsi_4h" /\ pc' = "rsi_1d")
       /\ ("klines_1d" \in failedFetches' \ failedFetches =>
             pc = "rsi_1d" /\ pc' # "rsi_1d")]_vars

\* The push of the first tick failed and the loop slept: it is at its head.
C11_Witness ==
  /\ program = "app"
  /\ failStep = "send" /\ pushed = "fail" /\ pc = "top" /\ idx = 0

\* What the device shows after the last tick counted as successful.
C12_LastPublished ==
  IF idx = 0 THEN NoDisplay
  ELSE [kind |-> published[Len(published)], tick |-> idx - 1]

\* C12, as stated: whenever a tick was counted as failed the device still
\* shows the payload of the last tick counted as successful, and what it
\* shows changes only in steps that advance idx.
C12_DisplayKeepsLastSuccess ==
  program = "app" /\ outcome = "fail" /\ ~InTick => display = C12_LastPublished

\* C12, amended: what the device shows changes only by the one push attempt
\* of a tick, and then to the payload of that tick; a tick that fails before
\* its push leaves it alone, a tick counted as successful has put its
\* payload there, and a tick counted as failed at the push may have put its
\* payload there too (as may a push that shutdown cuts off).  So the device
\* shows the payload of the last successful tick or that of a failed push of
\* the kind being retried.
C12_DisplayChangesOnlyByPush ==
  [][program = "app" =>
       /\ (display' # display =>
             /\ pc = "send" /\ pushed = "no"
             /\ (pushed' \in {"ok", "fail"} \/ pc' = "cancelled")
             /\ display' = [kind |-> kind, tick |-> tickIdx])
       /\ (InTick /\ ~InTick' /\ failStep' \notin {"none", "send"} =>
             display' = display)
       /\ (pushed' = "ok" /\ pushed = "no" =>
             display' = [kind |-> kind, tick |-> tickIdx] /\ idx' = tickIdx + 1)
       /\ (display = C12_LastPublished
           \/ (display.tick = idx /\ display.kind = seq[(idx % Len(seq)) + 1]
               /\ (retryKind = display.kind \/ InTick \/ pc = "cancelled")))]_vars

\* The push of the ETH tick was counted as failed, and the device shows ETH.
C12_Witness ==
  /\ program = "app"
  /\ outcome = "fail" /\ failStep = "send" /\ pc = "sleep"
  /\ idx = 1 /\ published = <<"BTC">>
  /\ display = [kind |-> "ETH", tick |-> 1]

\* C13: on shutdown the loop of app.py observes the cancellation only at its
\* interval sleep (or at its head, before a tick has started): the task never
\* ends by cancellation while a tick is in the middle of a fetch or of the
\* push.
C13_CancelledOnlyAtSleep ==
  [][program = "app" /\ pc' = "cancelled" /\ pc # "cancelled" =>
       pc \in {"sleep", "top"} /\ ~InTick]_vars

(***************************************************************************)
(* The interval                                                            *)
(***************************************************************************)

\* C14, as stated: for every integer INTERVAL_SECS the interval of either
\* loop is the configured value raised to a minimum, and never below 10.
C14_IntervalAtLeastTen ==
  calc.op \in {"interval", "interval_secs"} =>
    /\ calc.result >= 10
    /\ calc.result >= PyInt(calc.args[1])

\* C14, amended: the interval of app.py's loop is the configured value
\* raised to 30, the interval of main.py's loop is the configured value
\* raised to 2 (so it can be below 10).
C14_IntervalClampedPerProgram ==
  /\ (calc.op = "interval" =>
        /\ calc.result >= 30 /\ calc.result >= PyInt(calc.args[1])
        /\ calc.result \in {30, PyInt(calc.args[1])})
  /\ (calc.op = "interval_secs" =>
        /\ calc.result >= 2 /\ calc.result >= PyInt(calc.args[1])
        /\ calc.result \in {2, PyInt(calc.args[1])})

\* INTERVAL_SECS=5 makes main.py's loop sleep 5 seconds.
C14_Witness ==
  calc = [op |-> "interval_secs", args |-> <<(<<"5">>)>>, result |-> 5]

(***************************************************************************)
(* calculate_rsi                                                           *)
(***************************************************************************)

\* C15: calculate_rsi(closes, period) is None exactly when
\* len(closes) < period + 1, so also when len(closes) = period, and a number
\* (between 0 and 100) for every longer list.  Periods are 1 and more.
C15_NoneExactlyWhenTooShort ==
  calc.op = "calculate_rsi" =>
    LET prices == calc.args[1]
        period == calc.args[2]
    IN  /\ (calc.result = None <=> Len(prices) < period + 1)
        /\ (Len(prices) = period => calc.result = None)
        /\ (Len(prices) > period =>
              calc.result.t = "num" /\ calc.result.v \in 0..10000)

\* Three closes with period 3: None.
C15_Witness ==
  /\ calc.op = "calculate_rsi"
  /\ calc.args = <<(<<100, 200, 100>>), 3>>
  /\ calc.result = None

\* A list that never falls / never rises / always falls.
C16_Increasing(prices) == \A i \in 1..(Len(prices) - 1) : prices[i] <= prices[i + 1]
C17_Decreasing(prices) == \A i \in 1..(Len(prices) - 1) : prices[i] >= prices[i + 1]
C17_StrictlyDecreasing(prices) == \A i \in 1..(Len(prices) - 1) : prices[i] > prices[i + 1]

\* C16: for every monotonically increasing list of closes longer than period
\* calculate_rsi returns 100.0.
C16_IncreasingGivesHundred ==
  calc.op = "calculate_rsi" /\ Len(calc.args[1]) > calc.args[2]
    /\ C16_Increasing(calc.args[1]) =>
      calc.result = Num(10000)

\* Four rising closes with period 3: 100.0.
C16_Witness ==
  calc = [op |-> "calculate_rsi", args |-> <<(<<100, 200, 300, 400>>), 3>>,
          result |-> Num(10000)]

\* C17, as stated: for every monotonically decreasing list of closes longer
\* than period calculate_rsi returns 0.0.
C17_DecreasingGivesZero ==
  calc.op = "calculate_rsi" /\ Len(calc.args[1]) > calc.args[2]
    /\ C17_Decreasing(calc.args[1]) =>
      calc.result = Num(0)

\* C17, amended: for every strictly decreasing list of closes longer than
\* period calculate_rsi returns 0.0; for a list longer than period whose
\* closes are all equal it returns 100.0.
C17_StrictlyDecreasingGivesZero ==
  calc.op = "calculate_rsi" /\ Len(calc.args[1]) > calc.args[2] =>
    /\ (C17_StrictlyDecreasing(calc.args[1]) => calc.result = Num(0))
    /\ (C16_Increasing(calc.args[1]) /\ C17_Decreasing(calc.args[1]) =>
          calc.result = Num(10000))

\* Four falling closes with period 3: 0.0.
C17_Witness ==
  calc = [op |-> "calculate_rsi", args |-> <<(<<400, 300, 200, 100>>), 3>>,
          result |-> Num(0)]

(***************************************************************************)
(* The icon key                                                            *)
(***************************************************************************)

\* It is night for a call of meteo_code_to_icon_key: no day-only flag, and
\* the hour is before 6 or from 18 on.
C18_Night(day_only, hour) == ~day_only /\ (hour < 6 \/ hour >= 18)

\* C18: meteo_code_to_icon_key returns "na" for no code and for every code
\* outside the table (9999 among them), by day and by night; for code 0 it
\* returns "day-sunny" by day and "night-clear" by night.
C18_NaAndClear ==
  calc.op = "meteo_code_to_icon_key" =>
    LET code == calc.args[1]
        night == C18_Night(calc.args[2], calc.args[3])
    IN  /\ (code = None => calc.result = "na")
        /\ (code # None /\ code.v \notin WeatherCodes => calc.result = "na")
        /\ (code = Num(0) /\ ~night => calc.result = "day-sunny")
        /\ (code = Num(0) /\ night => calc.result = "night-clear")

\* Code 0 at 20 h without the day-only flag: "night-clear".
C18_Witness ==
  calc = [op |-> "meteo_code_to_icon_key", args |-> <<Num(0), FALSE, 20>>,
          result |-> "night-clear"]

\* C19: with the day-only override on, whatever the hour, every code gets
\* the key it gets by day without the override: from
\* meteo_code_to_icon_key called with day_only, and from
\* get_weather_icon_b64 under WEATHER_DAY_ONLY = 1, true or yes (read off the
\* full icon table).
C19_DayOnlyForcesDay ==
  /\ (calc.op = "meteo_code_to_icon_key" /\ calc.args[2] =>
        \A h \in 6..17 :
          calc.result = meteo_code_to_icon_key(calc.args[1], FALSE, h))
  /\ (calc.op = "get_weather_icon_b64" /\ calc.args[2] \in {"1", "true", "yes"}
        /\ calc.args[4] = FullIcons =>
        \A h \in 6..17 :
          calc.result = "icon:" \o meteo_code_to_icon_key(calc.args[1], FALSE, h))

\* WEATHER_DAY_ONLY = true, code 0 at 20 h: the icon of "day-sunny".
C19_Witness ==
  /\ calc.op = "get_weather_icon_b64"
  /\ calc.args = <<Num(0), "true", 20, FullIcons>>
  /\ calc.result = "icon:day-sunny"

\* The keys that are night variants, and those that are day variants.
C20_NightKeys ==
  {"night-clear", "night-alt-partly-cloudy", "night-alt-cloudy", "night-fog",
   "night-alt-sprinkle", "night-alt-sleet", "night-alt-rain",
   "night-alt-rain-wind", "night-alt-snow", "night-alt-showers",
   "night-alt-thunderstorm", "night-alt-hail"}
C20_DayKeys ==
  {"day-sunny", "day-sunny-overcast", "day-cloudy", "cloudy", "day-fog",
   "day-sprinkle", "day-sleet", "day-rain", "day-rain-wind", "day-snow",
   "day-showers", "day-thunderstorm", "day-hail"}

\* C20, as stated: every code of the table gets a day variant by day and a
\* night variant by night; none gets a key that ignores day and night.
C20_EveryCodeHasDayAndNight ==
  calc.op = "meteo_code_to_icon_key" /\ calc.args[1] # None
    /\ calc.args[1].v \in WeatherCodes =>
      IF C18_Night(calc.args[2], calc.args[3])
      THEN calc.result \in C20_NightKeys
      ELSE calc.result \in C20_DayKeys

\* The day and the night key of each condition of the table.
C20_Variants(c) ==
  CASE c = 0 -> <<"day-sunny", "night-clear">>
    [] c = 1 -> <<"day-sunny-overcast", "night-alt-partly-cloudy">>
    [] c = 2 -> <<"day-cloudy", "night-alt-partly-cloudy">>
    [] c = 3 -> <<"cloudy", "night-alt-cloudy">>
    [] c \in {45, 48} -> <<"day-fog", "night-fog">>
    [] c \in {51, 53, 55} -> <<"day-sprinkle", "night-alt-sprinkle">>
    [] c \in {56, 57, 66, 67} -> <<"day-sleet", "night-alt-sleet">>
    [] c \in {61, 63} -> <<"day-rain", "night-alt-rain">>
    [] c = 65 -> <<"day-rain-wind", "night-alt-rain-wind">>
    [] c \in {71, 73, 75, 85, 86} -> <<"day-snow", "night-alt-snow">>
    [] c \in {80, 81, 82} -> <<"day-showers", "night-alt-showers">>
    [] c = 95 -> <<"day-thunderstorm", "night-alt-thunderstorm">>
    [] c \in {96, 99} -> <<"day-hail", "night-alt-hail">>

\* C20, amended: every code of the table but 77 gets the day variant of its
\* condition by day and the night variant of the same condition by night;
\* 77 (snow grains) gets "snow" by day and by night.
C20_EveryCodeBut77HasDayAndNight ==
  calc.op = "meteo_code_to_icon_key" /\ calc.args[1] # None
    /\ calc.args[1].v \in WeatherCodes =>
      LET c == calc.args[1].v
          night == C18_Night(calc.args[2], calc.args[3])
      IN  IF c = 77 THEN calc.result = "snow"
          ELSE /\ calc.result = C20_Variants(c)[IF night THEN 2 ELSE 1]
               /\ C20_Variants(c)[1] \in C20_DayKeys
               /\ C20_Variants(c)[2] \in C20_NightKeys

\* Code 77 at 20 h without the day-only flag: "snow".
C20_Witness ==
  calc = [op |-> "meteo_code_to_icon_key", args |-> <<Num(77), FALSE, 20>>,
          result |-> "snow"]

(***************************************************************************)
(* The payloads of the ETH and weather ticks                               *)
(***************************************************************************)

\* C21: when an ETH tick builds its payload (the BTC fetch has returned; the
\* RSI 4h of ETH is in data, that of BTC in rsi_4h), the title is the buy hint
\* exactly when both are numbers below 30, the sell hint exactly when both
\* are numbers above 70, and "ETH" in every other case: one is None, or one
\* is 30 or 70 or between them, or they lie on different sides.
C21_EthTitleByThresholds ==
  [][program = "app" /\ kind = "ETH" /\ pc = "rsi_1d" /\ pc' = "send" =>
       LET e == data.rsi_4h
           b == rsi_4h
           both == e.t = "num" /\ b.t = "num"
           buy == both /\ e.v < 3000 /\ b.v < 3000
           sell == both /\ e.v > 7000 /\ b.v > 7000
       IN  /\ (payload'.title = "ETH (BUY ^)" <=> buy)
           /\ (payload'.title = "ETH (SELL v)" <=> sell)
           /\ (payload'.title = "ETH" <=> ~buy /\ ~sell)
           /\ payload'.title \in {"ETH (BUY ^)", "ETH (SELL v)", "ETH"}]_vars

\* An ETH tick is about to push the buy hint.
C21_Witness ==
  /\ program = "app"
  /\ kind = "ETH" /\ pc = "send" /\ payload.title = "ETH (BUY ^)"

\* The keys a weather tick can resolve from the body b under the
\* configuration of the run: from either code, at any hour of the model.
C22_ResolvedKeys(b) ==
  {meteo_code_to_icon_key(code, env_day_only \in {"1", "true", "yes"}, h) :
     code \in {WeatherDict(b).code_now, WeatherDict(b).code_day}, h \in Hours}

\* C22, as stated: the icon of a weather payload is the table's entry for
\* the resolved key when the table has that key, else its "na" entry when it
\* has "na", else no icon; and the tick goes on to the push.
C22_IconIsEntryWhenItExists ==
  [][program = "app" /\ pc = "weather" /\ pc' \notin {"weather", "cancelled"}
     /\ failedFetches' = failedFetches =>
       /\ pc' = "send"
       /\ \E key \in C22_ResolvedKeys(weatherBody') :
            payload'.icon = IF key \in DOMAIN icons THEN icons[key]
                            ELSE IF "na" \in DOMAIN icons THEN icons["na"]
                            ELSE NoIcon]_vars

\* C22, amended: the icon of a weather payload is the table's entry for the
\* resolved key when the table has that key with a text that is not empty,
\* else its "na" entry when it has "na" with a text that is not empty, else
\* no icon (null); whichever it is, a weather tick whose fetch succeeded
\* goes on to the push and is not counted as failed there.
C22_IconIsEntryWhenNotEmpty ==
  [][program = "app" /\ pc = "weather" /\ pc' \notin {"weather", "cancelled"}
     /\ failedFetches' = failedFetches =>
       /\ pc' = "send" /\ failStep' = "none" /\ InTick'
       /\ \E key \in C22_ResolvedKeys(weatherBody') :
            payload'.icon =
              IF key \in DOMAIN icons /\ icons[key] # "" THEN icons[key]
              ELSE IF "na" \in DOMAIN icons /\ icons["na"] # "" THEN icons["na"]
              ELSE NoIcon]_vars

\* With a table whose entry for the key is empty, a weather tick is about to
\* push the "na" icon.
C22_Witness ==
  /\ program = "app"
  /\ kind = "WEATHER" /\ pc = "send"
  /\ icons = BlankIcons /\ payload.icon = "icon:na"

\* C23: in an ETH tick the failure of the ticker request for the paired BTC
\* data ends the tick on the failure path (no payload, nothing pushed, idx
\* as it was), whatever ETH's own data were; and an ETH payload is built only
\* when the BTC fetch, started after ETH's own dict was returned, has come to
\* its end.
C23_PairedFetchFailureFailsTick ==
  [][program = "app" /\ kind = "ETH" =>
       /\ (sym = "BTCUSDT" /\ "ticker" \in failedFetches' \ failedFetches =>
             /\ pc = "ticker" /\ pc' = "sleep"
             /\ outcome' = "fail" /\ failStep' = "ticker"
             /\ payload' = NoPayload /\ pushed' = "no"
             /\ idx' = idx /\ idx' = tickIdx
             /\ published' = published /\ display' = display)
       /\ (pc # "send" /\ pc' = "send" =>
             /\ pc = "rsi_1d" /\ sym = "BTCUSDT"
             /\ data.price # None
             /\ payload'.message = PriceMessage(data))
       /\ (sym = "ETHUSDT" /\ sym' = "BTCUSDT" => pc = "rsi_1d" /\ pc' = "ticker")]_vars

\* ETH's own ticker gave 65000.00 and both of its candle fetches succeeded;
\* the BTC ticker request failed and the tick is counted as failed.
C23_Witness ==
  /\ program = "app"
  /\ kind = "ETH" /\ pc = "sleep" /\ outcome = "fail" /\ failStep = "ticker"
  /\ failedFetches = {"ticker"}
  /\ lastPriceRaw = JStr(<<"6", "5", "0", "0", "0", ".", "0", "0">>)
  /\ pushed = "no" /\ idx = 1

(***************************************************************************)
(* Liveness of the rotation                                                *)
(***************************************************************************)

C25_CurrentCodeWhenSupplied ==
  [][program = "app" /\ pc = "weather" /\ pc' = "send" =>
       LET w == WeatherDict(weatherBody')
           code == IF w.code_now # None THEN w.code_now ELSE w.code_day
       IN  /\ payload'.message =
                City \o "\n" \o weather_desc_vi(code) \o "\nH:" \o Degrees(w.tmax)
                  \o "  L:" \o Degrees(w.tmin)
           /\ \E h \in Hours :
                payload'.icon = get_weather_icon_b64(code, env_day_only, h, icons)]_vars

\* C26: wherever app.py's loop stands when lifespan cancels the task (at the
\* sleep, in a fetch, in the push), the task ends by the cancellation and
\* lifespan comes to its end; from the cancellation on idx does not change,
\* nothing is published, no tick starts, and the only step of the task is
\* the one that ends it.
C26_ShutdownTerminates ==
  /\ (program = "app" /\ lifespan = "shutdown")
       ~> (lifespan = "stopped" /\ pc = "cancelled")
  /\ [][program = "app" /\ lifespan' \in {"shutdown", "stopped"} =>
          /\ idx' = idx /\ published' = published
          /\ activeTicks' <= activeTicks
          /\ (pc' # pc => pc' = "cancelled" /\ lifespan = "shutdown")
          /\ (lifespan' = "stopped" => pc' = "cancelled" /\ ~cancelRequested')]_vars

\* Shutdown came while the second tick (ETH) was in its push: the request
\* had reached the device, the task has ended, lifespan is through, and idx
\* is still 1.
C26_Witness ==
  /\ program = "app"
  /\ lifespan = "stopped" /\ pc = "cancelled"
  /\ idx = 1 /\ tickIdx = 1 /\ outcome = "ok" /\ pushed = "no"
  /\ display = [kind |-> "ETH", tick |-> 1]

\* C27: in main.py a symbol whose ticker answer has lastPrice null or missing
\* is left out: the pass of the for loop that read it adds nothing to
\* results, the message (made after the last symbol) is made of the other
\* symbols only, and when there are none the tick goes to the sleep without
\* a push.
C27_NullPriceLeftOut ==
  [][program = "main" /\ pc = "fetch" /\ failedFetches' = failedFetches
     /\ lastPriceRaw' \in {Absent, JNull} =>
       IF fetchIdx < Len(SYMBOLS) THEN pc' = "fetch" /\ results' = results
       ELSE IF results = << >> THEN pc' = "sleep" /\ payload' = payload
       ELSE pc' = "send" /\ payload' = MainPayload(results)]_vars

============================================================================
